---- MODULE Spec2Model ----
(***************************************************************************)
(* Model of the Command-pattern example (src/unnamed/part_001): the Light  *)
(* receiver, the TurnOnCommand / TurnOffCommand concrete commands and the  *)
(* RemoteControl invoker with its single last_command_ slot.               *)
(*                                                                         *)
(* Command objects are identified by 1..MaxCmds, each identifier standing  *)
(* for one heap object (make_unique); an identifier is never reused.       *)
(* The caller may call execute()/undo() on a command it still owns, or     *)
(* move it into RemoteControl::pressButton.                                *)
(***************************************************************************)
EXTENDS Naturals, Sequences, FiniteSets

\* Number of command objects a run may construct.
MaxCmds == 2

\* Number of threads that call the same RemoteControl concurrently.
NThreads == 2

\* brightness_ values assigned by Light::turnOn / Light::turnOff.
FullBrightness == 100
ZeroBrightness == 0

NULL == 0
Cmds == 1..MaxCmds
Threads == 1..NThreads
Kinds == {"TurnOn", "TurnOff"}

VARIABLES
    light,          \* Light: [is_on, brightness]
    kind,           \* dynamic type of each command object
    executed_,      \* executed_ field of each command object
    loc,            \* who owns each command object
    last_command_,  \* RemoteControl::last_command_ (NULL or a command)
    crashed,        \* the process has been terminated by a fault
    out,            \* lines written to std::cout by the most recent call
    call,           \* the most recent call and the state it started from
    prev,           \* the call before the most recent one
    rt,             \* bookkeeping of the current run of pressButton / pressUndo calls
    undoOps,        \* pressUndo calls since the last pressButton that called a Light method
    pc,             \* concurrent callers: the statement each thread is at
    arg,            \* concurrent callers: the command each thread is working on
    undoCount,      \* concurrent callers: undo() calls the invoker made per command
    fault           \* concurrent callers: the first invalid memory access made

seqvars == <<out, call, prev, rt, undoOps>>
thrvars == <<pc, arg, undoCount, fault>>
vars == <<light, kind, executed_, loc, last_command_, crashed, out, call, prev, rt,
          undoOps, pc, arg, undoCount, fault>>

----
\* Light (receiver)

LightInit == [is_on |-> FALSE, brightness |-> ZeroBrightness]

turnOn(l) == [is_on |-> TRUE, brightness |-> FullBrightness]

turnOff_KeepsBrightness(l) == [is_on |-> FALSE, brightness |-> l.brightness]

turnOff(l) == [is_on |-> FALSE, brightness |-> ZeroBrightness]

MsgOn == "Light is ON (brightness: 100)"
MsgOff == "Light is OFF"
MsgUndo == "Pressing UNDO button"
MsgNoUndo == "No command to undo"

getName(k) == IF k = "TurnOn" THEN "Turn On Light" ELSE "Turn Off Light"

MsgPress(k) == <<"Pressing button: ", getName(k)>>

\* The Light method a command's execute() calls.
Forward(k, l) == IF k = "TurnOn" THEN turnOn(l) ELSE turnOff(l)
ForwardMsg(k) == IF k = "TurnOn" THEN MsgOn ELSE MsgOff

\* The Light method a command's undo() calls.
Backward(k, l) == IF k = "TurnOn" THEN turnOff(l) ELSE turnOn(l)
BackwardMsg(k) == IF k = "TurnOn" THEN MsgOff ELSE MsgOn

----
\* Concrete commands: the result of execute() / undo() on a command of kind k
\* whose executed_ flag is e, with the light in state l.

CmdExecute_NoGuard(k, e, l) ==
    [light |-> Forward(k, l), executed |-> TRUE, out |-> <<ForwardMsg(k)>>]

CmdExecute_FlagNotSet(k, e, l) ==
    IF ~e THEN [light |-> Forward(k, l), executed |-> e, out |-> <<ForwardMsg(k)>>]
          ELSE [light |-> l, executed |-> e, out |-> <<>>]

CmdExecute(k, e, l) ==
    IF ~e THEN [light |-> Forward(k, l), executed |-> TRUE, out |-> <<ForwardMsg(k)>>]
          ELSE [light |-> l, executed |-> e, out |-> <<>>]

CmdUndo_NoGuard(k, e, l) ==
    [light |-> Backward(k, l), executed |-> FALSE, out |-> <<BackwardMsg(k)>>]

CmdUndo(k, e, l) ==
    IF e THEN [light |-> Backward(k, l), executed |-> FALSE, out |-> <<BackwardMsg(k)>>]
         ELSE [light |-> l, executed |-> e, out |-> <<>>]

----
\* Bookkeeping

Snapshot(c) ==
    [light |-> light,
     executed |-> IF c = NULL THEN FALSE ELSE executed_[c],
     held |-> last_command_,
     heldExecuted |-> IF last_command_ = NULL THEN FALSE ELSE executed_[last_command_]]

Called(op, c) == [op |-> op, c |-> c, pre |-> Snapshot(c)]

NoCall ==
    [op |-> "init", c |-> NULL,
     pre |-> [light |-> LightInit, executed |-> FALSE, held |-> NULL,
              heldExecuted |-> FALSE]]

Record(op, c) ==
    /\ call' = Called(op, c)
    /\ prev' = call

RtIdle == [phase |-> "idle", base |-> LightInit, n |-> 0, k |-> 0, exact |-> TRUE]

\* A run is a maximal series of pressButton calls followed by pressUndo calls,
\* not interleaved with any other call; base is the light before the first
\* pressButton, n the pressButton calls, k the pressUndo calls so far; exact
\* tells whether every pressButton of the run changed the Light.
RtPress(changed) ==
    IF rt.phase = "press"
        THEN [rt EXCEPT !.n = @ + 1, !.exact = @ /\ changed]
        ELSE [phase |-> "press", base |-> light, n |-> 1, k |-> 0, exact |-> changed]

RtUndo ==
    IF rt.phase \in {"press", "undo"} /\ rt.k < rt.n
        THEN [rt EXCEPT !.phase = "undo", !.k = @ + 1]
        ELSE RtIdle

\* undoOps after a pressUndo that printed the lines o (counted up to 2).
UndoOpsAfter(o) ==
    IF \A i \in DOMAIN o : o[i] \notin {MsgOn, MsgOff} THEN undoOps
    ELSE IF undoOps < 2 THEN undoOps + 1
    ELSE 2

----
Init ==
    /\ light = LightInit
    /\ kind = [c \in Cmds |-> "TurnOn"]
    /\ executed_ = [c \in Cmds |-> FALSE]
    /\ loc = [c \in Cmds |-> "unborn"]
    /\ last_command_ = NULL
    /\ crashed = FALSE
    /\ out = <<>>
    /\ call = NoCall
    /\ prev = NoCall
    /\ rt = RtIdle
    /\ undoOps = 0
    /\ pc = [t \in Threads |-> "idle"]
    /\ arg = [t \in Threads |-> NULL]
    /\ undoCount = [c \in Cmds |-> 0]
    /\ fault = "none"

\* std::make_unique<TurnOnCommand>(light) / std::make_unique<TurnOffCommand>(light)
MakeCommand(c, k) ==
    /\ ~crashed
    /\ loc[c] = "unborn"
    /\ \A d \in Cmds : d < c => loc[d] # "unborn"
    /\ kind' = [kind EXCEPT ![c] = k]
    /\ executed_' = [executed_ EXCEPT ![c] = FALSE]
    /\ loc' = [loc EXCEPT ![c] = "caller"]
    /\ out' = <<>>
    /\ Record("make", c)
    /\ rt' = RtIdle
    /\ UNCHANGED <<light, last_command_, crashed, undoOps, thrvars>>

\* c->execute() called by the owner of the command
Execute(c) ==
    /\ ~crashed
    /\ loc[c] = "caller"
    /\ LET r == CmdExecute(kind[c], executed_[c], light) IN
        /\ light' = r.light
        /\ executed_' = [executed_ EXCEPT ![c] = r.executed]
        /\ out' = r.out
    /\ Record("execute", c)
    /\ rt' = RtIdle
    /\ UNCHANGED <<kind, loc, last_command_, crashed, undoOps, thrvars>>

\* c->undo() called by the owner of the command
Undo(c) ==
    /\ ~crashed
    /\ loc[c] = "caller"
    /\ LET r == CmdUndo(kind[c], executed_[c], light) IN
        /\ light' = r.light
        /\ executed_' = [executed_ EXCEPT ![c] = r.executed]
        /\ out' = r.out
    /\ Record("undo", c)
    /\ rt' = RtIdle
    /\ UNCHANGED <<kind, loc, last_command_, crashed, undoOps, thrvars>>

\* RemoteControl::pressButton(std::move(c)), c non-null: prints, executes the
\* command, then move-assigns it to last_command_, which destroys the command
\* held before.
PressButton(c) ==
    /\ ~crashed
    /\ loc[c] = "caller"
    /\ LET r == CmdExecute(kind[c], executed_[c], light) IN
        /\ light' = r.light
        /\ executed_' = [executed_ EXCEPT ![c] = r.executed]
        /\ out' = MsgPress(kind[c]) \o r.out
        /\ rt' = RtPress(r.light # light)
    /\ loc' = [d \in Cmds |->
                IF d = c THEN "remote"
                ELSE IF d = last_command_ THEN "dead"
                ELSE loc[d]]
    /\ last_command_' = c
    /\ Record("pressButton", c)
    /\ undoOps' = 0
    /\ UNCHANGED <<kind, crashed, thrvars>>

\* RemoteControl::pressButton(nullptr): command->getName() is a virtual call
\* through a null pointer, which is undefined behaviour.  Either the process
\* is terminated by the fault, or the calls through the pointer have no
\* effect and the null pointer is move-assigned to last_command_.
PressButtonNull ==
    /\ ~crashed
    /\ Record("pressButtonNull", NULL)
    /\ rt' = RtIdle
    /\ UNCHANGED <<undoOps, thrvars>>
    /\ \/ /\ crashed' = TRUE
          /\ out' = <<>>
          /\ UNCHANGED <<light, kind, executed_, loc, last_command_>>
       \/ /\ last_command_' = NULL
          /\ loc' = [d \in Cmds |-> IF d = last_command_ THEN "dead" ELSE loc[d]]
          /\ out' = <<"Pressing button: ">>
          /\ UNCHANGED <<light, kind, executed_, crashed>>

PressUndoHeld_NoReset ==
    LET c == last_command_
        r == CmdUndo(kind[c], executed_[c], light) IN
    /\ light' = r.light
    /\ executed_' = [executed_ EXCEPT ![c] = r.executed]
    /\ out' = <<MsgUndo>> \o r.out
    /\ UNCHANGED <<loc, last_command_>>

\* RemoteControl::pressUndo(), last_command_ non-null: undo the held command,
\* then last_command_.reset() destroys it.
PressUndoHeld ==
    LET c == last_command_
        r == CmdUndo(kind[c], executed_[c], light) IN
    /\ light' = r.light
    /\ executed_' = [executed_ EXCEPT ![c] = r.executed]
    /\ out' = <<MsgUndo>> \o r.out
    /\ loc' = [loc EXCEPT ![c] = "dead"]
    /\ last_command_' = NULL

PressUndoEmpty_Silent ==
    /\ out' = <<>>
    /\ UNCHANGED <<light, executed_, loc, last_command_>>

\* RemoteControl::pressUndo(), last_command_ null: only the message is printed.
PressUndoEmpty ==
    /\ out' = <<MsgNoUndo>>
    /\ UNCHANGED <<light, executed_, loc, last_command_>>

\* RemoteControl::pressUndo()
PressUndo ==
    /\ ~crashed
    /\ IF last_command_ # NULL THEN PressUndoHeld ELSE PressUndoEmpty
    /\ Record("pressUndo", last_command_)
    /\ rt' = RtUndo
    /\ undoOps' = UndoOpsAfter(out')
    /\ UNCHANGED <<kind, crashed, thrvars>>

Next ==
    \/ \E c \in Cmds, k \in Kinds : MakeCommand(c, k)
    \/ \E c \in Cmds : Execute(c)
    \/ \E c \in Cmds : Undo(c)
    \/ \E c \in Cmds : PressButton(c)
    \/ PressButtonNull
    \/ PressUndo

Spec == Init /\ [][Next]_vars

----
\* Several threads calling pressButton / pressUndo on one RemoteControl.  The
\* class takes no lock, so the calls interleave statement by statement.  The
\* bookkeeping of the sequential calls (seqvars) is not kept here.

Bump(n) == IF n < 2 THEN n + 1 ELSE 2

FirstFault(f) == IF fault = "none" THEN f ELSE fault

\* A thread constructs a command and enters pressButton with it (the line
\* printing the name has run).
T_PressCall(t, k) ==
    /\ ~crashed
    /\ pc[t] = "idle"
    /\ \E c \in Cmds :
        /\ loc[c] = "unborn"
        /\ \A d \in Cmds : d < c => loc[d] # "unborn"
        /\ kind' = [kind EXCEPT ![c] = k]
        /\ executed_' = [executed_ EXCEPT ![c] = FALSE]
        /\ loc' = [loc EXCEPT ![c] = "caller"]
        /\ arg' = [arg EXCEPT ![t] = c]
    /\ pc' = [pc EXCEPT ![t] = "pb_execute"]
    /\ UNCHANGED <<light, last_command_, crashed, undoCount, fault, seqvars>>

\* pressButton: command->execute()
T_PressExecute(t) ==
    /\ ~crashed
    /\ pc[t] = "pb_execute"
    /\ LET c == arg[t]
           r == CmdExecute(kind[c], executed_[c], light) IN
        /\ light' = r.light
        /\ executed_' = [executed_ EXCEPT ![c] = r.executed]
    /\ pc' = [pc EXCEPT ![t] = "pb_store"]
    /\ UNCHANGED <<kind, loc, last_command_, crashed, arg, undoCount, fault, seqvars>>

\* pressButton: last_command_ = std::move(command)
T_PressStore(t) ==
    /\ ~crashed
    /\ pc[t] = "pb_store"
    /\ loc' = [d \in Cmds |->
                IF d = arg[t] THEN "remote"
                ELSE IF d = last_command_ THEN "dead"
                ELSE loc[d]]
    /\ last_command_' = arg[t]
    /\ pc' = [pc EXCEPT ![t] = "idle"]
    /\ arg' = [arg EXCEPT ![t] = NULL]
    /\ UNCHANGED <<light, kind, executed_, crashed, undoCount, fault, seqvars>>

\* pressUndo: if (last_command_)
T_UndoTest(t) ==
    /\ ~crashed
    /\ pc[t] = "idle"
    /\ pc' = [pc EXCEPT ![t] = IF last_command_ # NULL THEN "pu_load" ELSE "idle"]
    /\ UNCHANGED <<light, kind, executed_, loc, last_command_, crashed, arg,
                   undoCount, fault, seqvars>>

\* pressUndo: last_command_-> reads the pointer again.  When another thread
\* has emptied the slot meanwhile this is a call through a null pointer:
\* the process is terminated, or the call has no effect.
T_UndoLoad(t) ==
    /\ ~crashed
    /\ pc[t] = "pu_load"
    /\ IF last_command_ # NULL
        THEN /\ arg' = [arg EXCEPT ![t] = last_command_]
             /\ pc' = [pc EXCEPT ![t] = "pu_undo"]
             /\ UNCHANGED <<crashed, fault>>
        ELSE /\ fault' = FirstFault("null_deref")
             /\ \/ /\ crashed' = TRUE
                   /\ UNCHANGED <<pc, arg>>
                \/ /\ pc' = [pc EXCEPT ![t] = "pu_reset"]
                   /\ UNCHANGED <<crashed, arg>>
    /\ UNCHANGED <<light, kind, executed_, loc, last_command_, undoCount, seqvars>>

\* pressUndo: the body of undo() on the command loaded.  When another thread
\* has destroyed that command meanwhile the body reads and writes freed
\* memory: the process is terminated, or the body runs on the stale object.
T_UndoBody(t) ==
    /\ ~crashed
    /\ pc[t] = "pu_undo"
    /\ LET c == arg[t]
           r == CmdUndo(kind[c], executed_[c], light) IN
        /\ undoCount' = [undoCount EXCEPT ![c] = Bump(@)]
        /\ fault' = IF loc[c] = "dead" THEN FirstFault("use_after_free") ELSE fault
        /\ \/ /\ loc[c] = "dead"
              /\ crashed' = TRUE
              /\ UNCHANGED <<light, executed_, pc>>
           \/ /\ light' = r.light
              /\ executed_' = [executed_ EXCEPT ![c] = r.executed]
              /\ pc' = [pc EXCEPT ![t] = "pu_reset"]
              /\ UNCHANGED crashed
    /\ UNCHANGED <<kind, loc, last_command_, arg, seqvars>>

\* pressUndo: last_command_.reset()
T_UndoReset(t) ==
    /\ ~crashed
    /\ pc[t] = "pu_reset"
    /\ loc' = [d \in Cmds |-> IF d = last_command_ THEN "dead" ELSE loc[d]]
    /\ last_command_' = NULL
    /\ pc' = [pc EXCEPT ![t] = "idle"]
    /\ arg' = [arg EXCEPT ![t] = NULL]
    /\ UNCHANGED <<light, kind, executed_, crashed, undoCount, fault, seqvars>>

NextConc ==
    \/ \E t \in Threads, k \in Kinds : T_PressCall(t, k)
    \/ \E t \in Threads : T_PressExecute(t)
    \/ \E t \in Threads : T_PressStore(t)
    \/ \E t \in Threads : T_UndoTest(t)
    \/ \E t \in Threads : T_UndoLoad(t)
    \/ \E t \in Threads : T_UndoBody(t)
    \/ \E t \in Threads : T_UndoReset(t)

SpecConc == Init /\ [][NextConc]_vars

----
\* Properties

LightMsgs == {MsgOn, MsgOff}

\* No Light method ran during the most recent call: every Light mutator prints.
NoReceiverOp(o) == \A i \in DOMAIN o : o[i] \notin LightMsgs

\* C1: after n >= 1 pressButton calls followed by n pressUndo calls, the
\* Light (is_on and brightness) is what it was before the first pressButton.
\* Stated for the runs in which every pressButton changed the Light, so that
\* each command's undo is the inverse of its execute (see C2) and the run of
\* main(), TurnOn, TurnOff, undo, undo from Off, is among them.
C1_RoundTrip ==
    (rt.phase = "undo" /\ rt.k = rt.n /\ rt.exact) => light = rt.base

\* C2: execute() immediately followed by undo() on the same command leaves the
\* Light as it was before the execute(), whatever state the Light was in.
C2_UndoInvertsExecute ==
    (/\ call.op = "undo"
     /\ prev.op = "execute"
     /\ prev.c = call.c
     /\ ~prev.pre.executed)
        => light = prev.pre.light

\* C3: pressUndo with no held command changes neither the invoker nor the
\* Light nor any command, prints "No command to undo" and does not end the
\* process.
C3_EmptyUndoIsNoOp ==
    [][(call'.op = "pressUndo" /\ last_command_ = NULL /\ ~crashed)
        => /\ light' = light
           /\ last_command_' = NULL
           /\ executed_' = executed_
           /\ loc' = loc
           /\ out' = <<MsgNoUndo>>
           /\ ~crashed']_vars

C3_Witness ==
    /\ call.op = "pressUndo"
    /\ call.pre.held = NULL
    /\ prev.op = "pressUndo"
    /\ prev.pre.held # NULL
    /\ light.is_on
    /\ out = <<MsgNoUndo>>

\* C4: execute() on a command whose executed_ flag is already set (directly
\* or through pressButton) calls no Light method and leaves the Light and the
\* flag as they are.
C4_DoubleExecuteRejected ==
    [][\A c \in Cmds :
        (call'.op \in {"execute", "pressButton"} /\ call'.c = c /\ executed_[c] /\ ~crashed)
            => /\ light' = light
               /\ NoReceiverOp(out')
               /\ executed_'[c]]_vars

\* A TurnOn command executed twice, the Light having been turned off by
\* another command in between.
C4_Witness ==
    /\ call.op = "execute"
    /\ call.pre.executed
    /\ kind[call.c] = "TurnOn"
    /\ ~call.pre.light.is_on
    /\ ~light.is_on

\* C5: undo() on a command whose executed_ flag is clear (never executed, or
\* undone since) calls no Light method and leaves the Light and every flag
\* as they are.
C5_UndoWithoutExecuteIgnored ==
    [][\A c \in Cmds :
        (call'.op \in {"undo", "pressUndo"} /\ call'.c = c /\ ~executed_[c] /\ ~crashed)
            => /\ light' = light
               /\ NoReceiverOp(out')
               /\ executed_' = executed_]_vars

\* A TurnOn command that was executed and undone is undone again while the
\* Light is on.
C5_Witness ==
    /\ call.op = "undo"
    /\ ~call.pre.executed
    /\ kind[call.c] = "TurnOn"
    /\ call.pre.light.is_on
    /\ light.is_on

\* C6: pressButton(nullptr) executes nothing, leaves the Light and
\* last_command_ unchanged and does not end the process.
C6_NullPerformRecoverable ==
    call.op = "pressButtonNull"
        => /\ ~crashed
           /\ light = call.pre.light
           /\ last_command_ = call.pre.held

\* C10: with several threads calling the invoker, no command has undo()
\* called on it twice, none is undone while its execute() is still running,
\* and none is used after another thread destroyed it.
C10_NoUnsafeInterleaving ==
    /\ \A c \in Cmds : undoCount[c] <= 1
    /\ \A t, u \in Threads :
        ~(pc[t] = "pb_execute" /\ pc[u] = "pu_undo" /\ arg[t] = arg[u])
    /\ fault # "use_after_free"

C12_HeldIsExecuted ==
    /\ [](last_command_ # NULL => executed_[last_command_])
    /\ [][\A h \in Cmds :
            (call'.op = "pressUndo" /\ last_command_ = h /\ ~crashed)
                => /\ out' = <<MsgUndo, BackwardMsg(kind[h])>>
                   /\ light' = Backward(kind[h], light)
                   /\ ~executed_'[h]
                   /\ loc'[h] = "dead"]_vars

\* A command whose flag was already set when it was handed to pressButton is
\* held, and then undone by pressUndo through one Light call.
C12_Witness ==
    /\ call.op = "pressUndo"
    /\ call.pre.held # NULL
    /\ call.pre.heldExecuted
    /\ prev.op = "pressButton"
    /\ prev.c = call.pre.held
    /\ prev.pre.executed
    /\ Len(out) = 2

\* C13: the Light is either on with brightness 100 or off with brightness 0
\* in every state, it is off with brightness 0 when constructed, and a call
\* that changes it has run turnOn or turnOff.
C13_LightOnFullOrOffZero ==
    /\ [](\/ light = [is_on |-> TRUE, brightness |-> 100]
          \/ light = [is_on |-> FALSE, brightness |-> 0])
    /\ [](call.op = "init" => light = [is_on |-> FALSE, brightness |-> 0])
    /\ [][light' # light
            => /\ \E i \in DOMAIN out' : out'[i] \in LightMsgs
               /\ out'[Len(out')] = (IF light'.is_on THEN MsgOn ELSE MsgOff)]_vars

\* The Light was on at full brightness, was turned off by a command and is
\* back on at full brightness through pressUndo.
C13_Witness ==
    /\ call.op = "pressUndo"
    /\ call.pre.held # NULL
    /\ kind[call.pre.held] = "TurnOff"
    /\ ~call.pre.light.is_on
    /\ call.pre.light.brightness = 0
    /\ prev.pre.light.is_on
    /\ light.is_on
    /\ light.brightness = 100

====
